---- MODULE Spec2Model ----
(***************************************************************************)
(* Model of the generic size-bounded LRU cache of package lru              *)
(* (Cache[K, V]): a container/list recency list `li`, a key index `m`      *)
(* from keys to list elements, a running size `curSize` accumulated with   *)
(* the pluggable sizeCal function, and the expireCallback hook.            *)
(***************************************************************************)
EXTENDS Integers, Sequences, FiniteSets, TLC

\* ---- bounds of the model -------------------------------------------------
NKeys == 3          \* keys are 1..NKeys
MaxVal == 1         \* values are 0..MaxVal
MaxMaxSize == 2     \* New is called with a maxSize in -1..MaxMaxSize
NThreads == 2       \* goroutines calling the cache are 1..NThreads

Keys == 1 .. NKeys
Values == 0 .. MaxVal
MaxSizes == -1 .. MaxMaxSize   \* zero and negative maxima are allowed by New
ElemIds == 1 .. NKeys   \* identities of live *list.Element objects
Nil == 0                \* the nil *list.Element

\* The sizeCal functions New is called with: "nil" is the default installed
\* by New (constant 1); the others are caller supplied and deterministic in
\* (key, value): "weight" returns key * value, which is never negative, and
\* "signed" returns key * value - 1, which is negative for the value 0.
SizeCals == {"nil", "weight", "signed"}
NonNegSizeCals == {"nil", "weight"}

VARIABLES
    li,        \* c.li: the list, as the sequence of its elements front to back
    m,         \* c.m: key -> element
    elems,     \* element -> the *Entry held in its Value field
    curSize,   \* c.curSize
    maxSize,   \* c.maxSize
    sizeMode,  \* which sizeCal function c.sizeCal is
    cb,        \* the expireCallback invocations made by the last operation
    predLog,   \* the keys the RemoveIf predicate was called with, in order
    scanLog,   \* the entries the Scan consumer was called with, in order
    op,        \* name of the last operation that returned
    arg,       \* its arguments
    ret,       \* its results
    rePut,     \* the last two operations were Puts of the same key
    puts,      \* the keys put since New, while every call was a Put of a new key
    lock,      \* c.lock: the goroutine holding it for writing, those for reading
    pc,        \* where each goroutine is in its call
    run,       \* the call each goroutine is in: method, arguments and locals
    seen,      \* what Size() or Number() returned, if that was the last step
    quiet,     \* size and count when the lock was last released by a writer
    cbKind     \* which kind of function c.expireCallback is

seqVars == <<li, m, elems, curSize, maxSize, sizeMode, cb, predLog, scanLog,
             op, arg, ret, rePut, puts>>
concVars == <<lock, pc, run, seen, quiet, cbKind>>
vars == <<seqVars, concVars>>

\* ---- the Entry type and the pluggable functions ---------------------------
Entry(key, value) == [key |-> key, value |-> value]

sizeCal(key, value) ==
    CASE sizeMode = "nil" -> 1
      [] sizeMode = "weight" -> key * value
      [] sizeMode = "signed" -> key * value - 1

\* ---- container/list operations used by the cache --------------------------
RECURSIVE IndexOf(_, _)
IndexOf(l, e) == IF l = <<>> THEN 0
                 ELSE IF Head(l) = e THEN 1
                 ELSE LET r == IndexOf(Tail(l), e) IN IF r = 0 THEN 0 ELSE r + 1

InList(l, e) == \E i \in 1 .. Len(l) : l[i] = e

ListRemove(l, e) == SelectSeq(l, LAMBDA x : x # e)

PushFront(l, e) == <<e>> \o l

MoveToFront(l, e) ==
    IF ~InList(l, e) \/ l[1] = e THEN l ELSE <<e>> \o ListRemove(l, e)

Back(l) == IF Len(l) = 0 THEN Nil ELSE l[Len(l)]

Front(l) == IF Len(l) = 0 THEN Nil ELSE l[1]

ElemNext(l, e) ==
    LET i == IndexOf(l, e) IN IF i = 0 \/ i = Len(l) THEN Nil ELSE l[i + 1]

\* a newly allocated element: one that is not referenced by the list or the map
NewElem(c) ==
    CHOOSE e \in ElemIds :
        /\ e \notin DOMAIN c.elems
        /\ \A x \in ElemIds : x \notin DOMAIN c.elems => e <= x

\* ---- the cache as a value --------------------------------------------------
Cache == [li |-> li, m |-> m, elems |-> elems, curSize |-> curSize,
          cb |-> <<>>, predLog |-> <<>>, scanLog |-> <<>>]

MapDelete(f, k) == [x \in DOMAIN f \ {k} |-> f[x]]

MapPut(f, k, v) == [x \in DOMAIN f \cup {k} |-> IF x = k THEN v ELSE f[x]]

expireCallback(c, key, value) ==
    [c EXCEPT !.cb = Append(@, Entry(key, value))]

\* removeUnlock without the call of c.expireCallback
removeUnlock_NoCallback(c, key) ==
    IF key \in DOMAIN c.m
    THEN LET ele == c.m[key] IN
         [c EXCEPT !.m = MapDelete(@, key),
                   !.li = ListRemove(@, ele),
                   !.curSize = @ - sizeCal(key, c.elems[ele].value),
                   !.elems = MapDelete(@, ele)]
    ELSE c

\* removeUnlock calling c.expireCallback after the `if ok` block, so also for
\* an absent key (with the zero value)
removeUnlock_AlwaysCallback(c, key) ==
    IF key \in DOMAIN c.m
    THEN LET ele == c.m[key]
             c1 == [c EXCEPT !.m = MapDelete(@, key),
                             !.li = ListRemove(@, ele),
                             !.curSize = @ - sizeCal(key, c.elems[ele].value)]
             c2 == expireCallback(c1, key, c.elems[ele].value)
         IN  [c2 EXCEPT !.elems = MapDelete(@, ele)]
    ELSE expireCallback(c, key, 0)

\* removeUnlock without `delete(c.m, key)`
removeUnlock_KeepIndex(c, key) ==
    IF key \in DOMAIN c.m
    THEN LET ele == c.m[key]
             c1 == [c EXCEPT !.li = ListRemove(@, ele),
                             !.curSize = @ - sizeCal(key, c.elems[ele].value)]
         IN  expireCallback(c1, key, c.elems[ele].value)
    ELSE c

removeUnlock(c, key) ==
    IF key \in DOMAIN c.m
    THEN LET ele == c.m[key]
             c1 == [c EXCEPT !.m = MapDelete(@, key),
                             !.li = ListRemove(@, ele),
                             !.curSize = @ - sizeCal(key, c.elems[ele].value)]
             c2 == expireCallback(c1, key, c.elems[ele].value)
         IN  [c2 EXCEPT !.elems = MapDelete(@, ele)]
    ELSE c

\* expireUnlock with `c.li.Len() > 1`: the last entry is never evicted
RECURSIVE expireUnlock_KeepLast(_)
expireUnlock_KeepLast(c) ==
    IF c.curSize > maxSize /\ Len(c.li) > 1
    THEN expireUnlock_KeepLast(removeUnlock(c, c.elems[Back(c.li)].key))
    ELSE c

\* expireUnlock with `if` in place of `for`: at most one entry is evicted
expireUnlock_Once(c) ==
    IF c.curSize > maxSize /\ Len(c.li) > 0
    THEN removeUnlock(c, c.elems[Back(c.li)].key)
    ELSE c

\* expireUnlock with `c.curSize >= c.maxSize` as its loop condition
RECURSIVE expireUnlock_Eager(_)
expireUnlock_Eager(c) ==
    IF c.curSize >= maxSize /\ Len(c.li) > 0
    THEN expireUnlock_Eager(removeUnlock(c, c.elems[Back(c.li)].key))
    ELSE c

\* expireUnlock taking its victims from c.li.Front() instead of c.li.Back()
RECURSIVE expireUnlock_Front(_)
expireUnlock_Front(c) ==
    IF c.curSize > maxSize /\ Len(c.li) > 0
    THEN expireUnlock_Front(removeUnlock(c, c.elems[Front(c.li)].key))
    ELSE c

RECURSIVE expireUnlock(_)
expireUnlock(c) ==
    IF c.curSize > maxSize /\ Len(c.li) > 0
    THEN expireUnlock(removeUnlock(c, c.elems[Back(c.li)].key))
    ELSE c

\* Put whose update branch does not replace ele.Value
putInsert_KeepValue(c, key, value) ==
    IF key \in DOMAIN c.m
    THEN LET ele == c.m[key] IN
         [c EXCEPT !.li = MoveToFront(@, ele)]
    ELSE LET ele == NewElem(c) IN
         [c EXCEPT !.li = PushFront(@, ele),
                   !.elems = MapPut(@, ele, Entry(key, value)),
                   !.m = MapPut(@, key, ele),
                   !.curSize = @ + sizeCal(key, value)]

\* Put whose update branch does not subtract the size of the old value
putInsert_NoSubtract(c, key, value) ==
    IF key \in DOMAIN c.m
    THEN LET ele == c.m[key] IN
         [c EXCEPT !.curSize = @ + sizeCal(key, value),
                   !.elems = MapPut(@, ele, Entry(key, value)),
                   !.li = MoveToFront(@, ele)]
    ELSE LET ele == NewElem(c) IN
         [c EXCEPT !.li = PushFront(@, ele),
                   !.elems = MapPut(@, ele, Entry(key, value)),
                   !.m = MapPut(@, key, ele),
                   !.curSize = @ + sizeCal(key, value)]

putInsert(c, key, value) ==
    IF key \in DOMAIN c.m
    THEN LET ele == c.m[key] IN
         [c EXCEPT !.curSize = (@ - sizeCal(key, c.elems[ele].value))
                                  + sizeCal(key, value),
                   !.elems = MapPut(@, ele, Entry(key, value)),
                   !.li = MoveToFront(@, ele)]
    ELSE LET ele == NewElem(c) IN
         [c EXCEPT !.li = PushFront(@, ele),
                   !.elems = MapPut(@, ele, Entry(key, value)),
                   !.m = MapPut(@, key, ele),
                   !.curSize = @ + sizeCal(key, value)]

put(c, key, value) == expireUnlock(putInsert(c, key, value))

\* Get without `c.li.MoveToFront(ele)`
get_NoMove(c, key) == c

get(c, key) ==
    IF key \notin DOMAIN c.m THEN c
    ELSE [c EXCEPT !.li = MoveToFront(@, c.m[key])]

\* RemoveIf advancing with `cur = cur.Next()` after the removal: the Next() of
\* an element that list.Remove has unlinked is nil
RECURSIVE removeIfLoop_NextAfter(_, _, _)
removeIfLoop_NextAfter(c, cur, pred) ==
    IF cur = Nil THEN c
    ELSE LET key == c.elems[cur].key
             c1 == [c EXCEPT !.predLog = Append(@, key)]
             c2 == IF key \in pred THEN removeUnlock(c1, key) ELSE c1
             next == ElemNext(c2.li, cur)
         IN  removeIfLoop_NextAfter(c2, next, pred)

RECURSIVE removeIfLoop(_, _, _)
removeIfLoop(c, cur, pred) ==
    IF cur = Nil THEN c
    ELSE LET next == ElemNext(c.li, cur)
             key == c.elems[cur].key
             c1 == [c EXCEPT !.predLog = Append(@, key)]
             c2 == IF key \in pred THEN removeUnlock(c1, key) ELSE c1
         IN  removeIfLoop(c2, next, pred)

removeIf(c, pred) == removeIfLoop(c, Front(c.li), pred)

\* the orders in which `for k, ele := range c.m` can visit the keys of the map
RangeOrders(f) ==
    {o \in [1 .. Cardinality(DOMAIN f) -> DOMAIN f] :
        \A i, j \in DOMAIN o : i # j => o[i] # o[j]}

RECURSIVE removeAllLoop(_, _)
removeAllLoop(c, order) ==
    IF order = <<>> THEN c
    ELSE removeAllLoop(
             expireCallback(c, Head(order), c.elems[c.m[Head(order)]].value),
             Tail(order))

\* RemoveAll without `c.curSize = 0`
removeAll_KeepSize(c, order) ==
    [removeAllLoop(c, order) EXCEPT !.li = <<>>, !.m = <<>>, !.elems = <<>>]

removeAll(c, order) ==
    [removeAllLoop(c, order) EXCEPT !.li = <<>>, !.m = <<>>, !.elems = <<>>,
                                    !.curSize = 0]

\* ---- the read operations ----------------------------------------------------
\* LeastRecentlyUsed returning c.li.Front() instead of c.li.Back()
leastRecentlyUsed_Front(c) ==
    LET back == Front(c.li) IN
    IF back # Nil
    THEN [ok |-> TRUE, key |-> c.elems[back].key, value |-> c.elems[back].value]
    ELSE [ok |-> FALSE, key |-> 0, value |-> 0]

leastRecentlyUsed(c) ==
    LET back == Back(c.li) IN
    IF back # Nil
    THEN [ok |-> TRUE, key |-> c.elems[back].key, value |-> c.elems[back].value]
    ELSE [ok |-> FALSE, key |-> 0, value |-> 0]

\* AllKeys building its result with a prepend instead of append(ks, key)
RECURSIVE allKeysLoop_Prepend(_, _, _)
allKeysLoop_Prepend(c, cur, ks) ==
    IF cur = Nil THEN ks
    ELSE allKeysLoop_Prepend(c, ElemNext(c.li, cur), <<c.elems[cur].key>> \o ks)

RECURSIVE allKeysLoop(_, _, _)
allKeysLoop(c, cur, ks) ==
    IF cur = Nil THEN ks
    ELSE allKeysLoop(c, ElemNext(c.li, cur), Append(ks, c.elems[cur].key))

allKeys(c) == allKeysLoop(c, Front(c.li), <<>>)

\* AllKeys of the variant that ranges over the map c.m, in the order `order`
allKeysByIndex(c, order) == order

\* the Scan consumers: the one called `stop` returns false on its stop-th call
\* and true on the calls before
consumer(stop, calls) == Len(calls) # stop

\* Scan going on after its consumer returned false
RECURSIVE scanLoop_NoBreak(_, _, _)
scanLoop_NoBreak(c, element, stop) ==
    IF element = Nil THEN c
    ELSE LET c1 == [c EXCEPT !.scanLog = Append(@, c.elems[element])]
         IN  scanLoop_NoBreak(c1, ElemNext(c1.li, element), stop)

RECURSIVE scanLoop(_, _, _)
scanLoop(c, element, stop) ==
    IF element = Nil THEN c
    ELSE LET c1 == [c EXCEPT !.scanLog = Append(@, c.elems[element])]
         IN  IF ~consumer(stop, c1.scanLog) THEN c1
             ELSE scanLoop(c1, ElemNext(c1.li, element), stop)

scan(c, stop) == scanLoop(c, Front(c.li), stop)

\* ---- arguments and results of the last operation ---------------------------
NoArg == [key |-> 0, value |-> 0, pred |-> {}, stop |-> 0]
NoRet == [ok |-> FALSE, key |-> 0, value |-> 0, keys |-> <<>>, n |-> 0]
Tainted == <<0>>    \* value of `puts` once a call was not a Put of a new key

\* a goroutine outside any call, and a step that was no Size() or Number()
NoRun == [op |-> "", key |-> 0, value |-> 0, pred |-> {}, next |-> Nil, todo |-> {}]
NoSeen == [op |-> "", n |-> 0]

\* The addresses of the list elements are not observable: the state is kept
\* up to a renaming of them, the element at position i of the list having the
\* address i (an element referred to by the map only gets the address Nil).
Canonical(c) ==
    [c EXCEPT !.li = [i \in 1 .. Len(c.li) |-> i],
              !.m = [k \in DOMAIN c.m |-> IndexOf(c.li, c.m[k])],
              !.elems = [i \in 1 .. Len(c.li) |-> c.elems[c.li[i]]]]

Store(c) ==
    /\ li' = Canonical(c).li
    /\ m' = Canonical(c).m
    /\ elems' = Canonical(c).elems
    /\ curSize' = c.curSize
    /\ cb' = c.cb
    /\ predLog' = c.predLog
    /\ scanLog' = c.scanLog

\* ---- construction -----------------------------------------------------------
Init ==
    /\ li = <<>>
    /\ m = <<>>
    /\ elems = <<>>
    /\ curSize = 0
    /\ maxSize \in MaxSizes
    /\ sizeMode \in SizeCals
    /\ cb = <<>>
    /\ predLog = <<>>
    /\ scanLog = <<>>
    /\ op = "New"
    /\ arg = NoArg
    /\ ret = NoRet
    /\ rePut = FALSE
    /\ puts = <<>>
    /\ lock = [w |-> 0, r |-> {}]
    /\ pc = [t \in 1 .. NThreads |-> "idle"]
    /\ run = [t \in 1 .. NThreads |-> NoRun]
    /\ seen = NoSeen
    /\ quiet = [size |-> 0, n |-> 0]
    /\ cbKind = "plain"

\* ---- the public operations ---------------------------------------------------
Put(key, value) ==
    /\ Store(put(Cache, key, value))
    /\ op' = "Put"
    /\ arg' = [NoArg EXCEPT !.key = key, !.value = value]
    /\ ret' = NoRet
    /\ rePut' = (op = "Put" /\ arg.key = key)
    /\ puts' = IF puts # Tainted /\ \A i \in DOMAIN puts : puts[i] # key
               THEN Append(puts, key) ELSE Tainted
    /\ UNCHANGED <<maxSize, sizeMode, concVars>>

Get(key) ==
    /\ Store(get(Cache, key))
    /\ op' = "Get"
    /\ arg' = [NoArg EXCEPT !.key = key]
    /\ ret' = IF key \in DOMAIN m
              THEN [NoRet EXCEPT !.ok = TRUE, !.value = elems[m[key]].value]
              ELSE NoRet
    /\ rePut' = FALSE
    /\ puts' = Tainted
    /\ UNCHANGED <<maxSize, sizeMode, concVars>>

Remove(key) ==
    /\ Store(removeUnlock(Cache, key))
    /\ op' = "Remove"
    /\ arg' = [NoArg EXCEPT !.key = key]
    /\ ret' = NoRet
    /\ rePut' = FALSE
    /\ puts' = Tainted
    /\ UNCHANGED <<maxSize, sizeMode, concVars>>

RemoveIf(pred) ==
    /\ Store(removeIf(Cache, pred))
    /\ op' = "RemoveIf"
    /\ arg' = [NoArg EXCEPT !.pred = pred]
    /\ ret' = NoRet
    /\ rePut' = FALSE
    /\ puts' = Tainted
    /\ UNCHANGED <<maxSize, sizeMode, concVars>>

RemoveAll ==
    /\ \E order \in RangeOrders(m) : Store(removeAll(Cache, order))
    /\ op' = "RemoveAll"
    /\ arg' = NoArg
    /\ ret' = NoRet
    /\ rePut' = FALSE
    /\ puts' = Tainted
    /\ UNCHANGED <<maxSize, sizeMode, concVars>>

Next ==
    \/ \E key \in Keys, value \in Values : Put(key, value)
    \/ \E key \in Keys : Get(key)
    \/ \E key \in Keys : Remove(key)
    \/ \E pred \in SUBSET Keys : RemoveIf(pred)
    \/ RemoveAll

Spec == Init /\ [][Next]_vars

\* ---- the read operations as calls ---------------------------------------------
ReadDone(name) ==
    /\ op' = name
    /\ rePut' = FALSE
    /\ puts' = Tainted
    /\ UNCHANGED <<maxSize, sizeMode, concVars>>

LeastRecentlyUsed ==
    /\ Store(Cache)
    /\ arg' = NoArg
    /\ ret' = LET r == leastRecentlyUsed(Cache) IN
              [NoRet EXCEPT !.ok = r.ok, !.key = r.key, !.value = r.value]
    /\ ReadDone("LeastRecentlyUsed")

AllKeys ==
    /\ Store(Cache)
    /\ arg' = NoArg
    /\ ret' = [NoRet EXCEPT !.keys = allKeys(Cache)]
    /\ ReadDone("AllKeys")

AllKeysByIndex ==
    /\ Store(Cache)
    /\ arg' = NoArg
    /\ \E order \in RangeOrders(m) :
           ret' = [NoRet EXCEPT !.keys = allKeysByIndex(Cache, order)]
    /\ ReadDone("AllKeysByIndex")

Scan(stop) ==
    /\ Store(scan(Cache, stop))
    /\ arg' = [NoArg EXCEPT !.stop = stop]
    /\ ret' = NoRet
    /\ ReadDone("Scan")

Size ==
    /\ Store(Cache)
    /\ arg' = NoArg
    /\ ret' = [NoRet EXCEPT !.n = curSize]
    /\ ReadDone("Size")

Number ==
    /\ Store(Cache)
    /\ arg' = NoArg
    /\ ret' = [NoRet EXCEPT !.n = Len(li)]
    /\ ReadDone("Number")

NextRead ==
    \/ Next
    \/ LeastRecentlyUsed
    \/ AllKeys
    \/ AllKeysByIndex
    \/ \E stop \in 1 .. NKeys + 1 : Scan(stop)
    \/ Size
    \/ Number

SpecRead == Init /\ [][NextRead]_vars

\* ---- the operations as calls of concurrent goroutines -------------------------
Threads == 1 .. NThreads

\* expireCallback either returns without touching the cache ("plain") or
\* calls a locking method of the same cache before it returns ("reentrant")
CallbackKinds == {"plain", "reentrant"}

Writers == {"Put", "Get", "Remove", "RemoveIf", "RemoveAll"}
Readers == {"LeastRecentlyUsed", "AllKeys", "Scan"}

\* the calls a goroutine can make
Calls ==
    {[NoRun EXCEPT !.op = "Put", !.key = k, !.value = v] : k \in Keys, v \in Values}
    \cup {[NoRun EXCEPT !.op = o, !.key = k] : o \in {"Get", "Remove"}, k \in Keys}
    \cup {[NoRun EXCEPT !.op = "RemoveIf", !.pred = p] : p \in SUBSET Keys}
    \cup {[NoRun EXCEPT !.op = o] : o \in {"RemoveAll"} \cup Readers}

\* Get takes the read lock
LockMode_GetShared(name) ==
    IF name \in Readers \cup {"Get"} THEN "R" ELSE "W"

\* Remove takes the read lock
LockMode_RemoveShared(name) ==
    IF name \in Readers \cup {"Remove"} THEN "R" ELSE "W"

\* which side of c.lock a method takes: RLock or Lock
LockMode(name) ==
    IF name \in Readers THEN "R" ELSE "W"

\* sync.RWMutex: Lock waits for every holder, RLock for a writer
CanLock(mode) ==
    IF mode = "W" THEN lock.w = 0 /\ lock.r = {} ELSE lock.w = 0

Locked(t, mode) ==
    IF mode = "W" THEN [lock EXCEPT !.w = t] ELSE [lock EXCEPT !.r = @ \cup {t}]

Unlocked(t) ==
    [w |-> IF lock.w = t THEN 0 ELSE lock.w, r |-> lock.r \ {t}]

\* the condition of the loop of expireUnlock
expireCond(c) ==
    c.curSize > maxSize /\ Len(c.li) > 0

\* the removal stops short of the list
expireStep_KeepList(c) ==
    [removeUnlock(c, c.elems[Back(c.li)].key) EXCEPT !.li = c.li, !.elems = c.elems]

\* one iteration of the loop of expireUnlock
expireStep(c) ==
    removeUnlock(c, c.elems[Back(c.li)].key)

StoreCache(c) ==
    /\ li' = Canonical(c).li
    /\ m' = Canonical(c).m
    /\ elems' = Canonical(c).elems
    /\ curSize' = c.curSize

\* the deferred Unlock / RUnlock and the return of the call; cb holds the
\* callbacks of the call in progress only
Return(t) ==
    /\ pc' = [pc EXCEPT ![t] = "idle"]
    /\ run' = [run EXCEPT ![t] = NoRun]
    /\ lock' = Unlocked(t)
    /\ cb' = <<>>
    /\ quiet' = IF LockMode(run[t].op) = "W"
                THEN [size |-> curSize', n |-> Len(li')]
                ELSE quiet

\* the call goes on holding the lock
Goto(t, label) ==
    /\ pc' = [pc EXCEPT ![t] = label]
    /\ UNCHANGED <<lock, quiet>>

\* after removeUnlock: expireCallback is running if it was invoked
AfterRemove(t, c) ==
    /\ StoreCache(c)
    /\ cb' = cb \o c.cb
    /\ IF c.cb # <<>> THEN Goto(t, "callback") ELSE Goto(t, "loop")

ConcFrame == UNCHANGED <<maxSize, sizeMode, cbKind, predLog, scanLog,
                         op, arg, ret, rePut, puts>>

\* a goroutine calls a method, which takes the lock; a reentrant callback
\* makes such a call from inside expireCallback
Acquire(t, call) ==
    /\ pc[t] = "idle" \/ (pc[t] = "callback" /\ cbKind = "reentrant")
    /\ CanLock(LockMode(call.op))
    /\ lock' = Locked(t, LockMode(call.op))
    /\ pc' = [pc EXCEPT ![t] = "body"]
    /\ run' = [run EXCEPT ![t] = call]
    /\ seen' = NoSeen
    /\ UNCHANGED <<li, m, elems, curSize, cb, quiet>>
    /\ ConcFrame

\* the statements of the method up to its first loop or callback
Body(t) ==
    /\ pc[t] = "body"
    /\ seen' = NoSeen
    /\ ConcFrame
    /\ LET r == run[t] IN
       CASE r.op = "Put" ->
              /\ StoreCache(putInsert(Cache, r.key, r.value))
              /\ Goto(t, "loop")
              /\ UNCHANGED <<run, cb>>
         [] r.op = "Get" ->
              /\ StoreCache(get(Cache, r.key))
              /\ Return(t)
         [] r.op = "Remove" ->
              /\ AfterRemove(t, removeUnlock([Cache EXCEPT !.cb = <<>>], r.key))
              /\ UNCHANGED run
         [] r.op = "RemoveIf" ->
              /\ run' = [run EXCEPT ![t].next = Front(li)]
              /\ Goto(t, "loop")
              /\ UNCHANGED <<li, m, elems, curSize, cb>>
         [] r.op = "RemoveAll" ->
              /\ run' = [run EXCEPT ![t].todo = DOMAIN m]
              /\ Goto(t, "loop")
              /\ UNCHANGED <<li, m, elems, curSize, cb>>
         [] r.op \in Readers ->
              /\ UNCHANGED <<li, m, elems, curSize>>
              /\ Return(t)

\* one pass through the head of the method's loop, or its return
Loop(t) ==
    /\ pc[t] = "loop"
    /\ seen' = NoSeen
    /\ ConcFrame
    /\ LET r == run[t]
           c == [Cache EXCEPT !.cb = <<>>]
       IN
       CASE r.op = "Put" ->
              IF expireCond(c)
              THEN /\ AfterRemove(t, expireStep(c))
                   /\ UNCHANGED run
              ELSE /\ UNCHANGED <<li, m, elems, curSize>>
                   /\ Return(t)
         [] r.op = "Remove" ->
              /\ UNCHANGED <<li, m, elems, curSize>>
              /\ Return(t)
         [] r.op = "RemoveIf" ->
              IF r.next = Nil
              THEN /\ UNCHANGED <<li, m, elems, curSize>>
                   /\ Return(t)
              ELSE LET next == ElemNext(li, r.next)
                       e == elems[r.next]
                       c2 == IF e.key \in r.pred THEN removeUnlock(c, e.key) ELSE c
                   IN /\ AfterRemove(t, c2)
                      /\ run' = [run EXCEPT ![t].next =
                                    IF next = Nil THEN Nil ELSE IndexOf(c2.li, next)]
         [] r.op = "RemoveAll" ->
              IF r.todo = {}
              THEN /\ StoreCache([c EXCEPT !.li = <<>>, !.m = <<>>,
                                           !.elems = <<>>, !.curSize = 0])
                   /\ Return(t)
              ELSE \E k \in r.todo :
                      /\ cb' = cb \o expireCallback(c, k, elems[m[k]].value).cb
                      /\ run' = [run EXCEPT ![t].todo = @ \ {k}]
                      /\ Goto(t, "callback")
                      /\ UNCHANGED <<li, m, elems, curSize>>

\* a plain expireCallback returns to the method that invoked it
CallbackReturn(t) ==
    /\ pc[t] = "callback"
    /\ cbKind = "plain"
    /\ Goto(t, "loop")
    /\ seen' = NoSeen
    /\ UNCHANGED <<li, m, elems, curSize, cb, run>>
    /\ ConcFrame

\* Size() reads c.curSize and takes no lock
SizeCall(t) ==
    /\ pc[t] = "idle"
    /\ seen' = [op |-> "Size", n |-> curSize]
    /\ UNCHANGED <<li, m, elems, curSize, cb, lock, pc, run, quiet>>
    /\ ConcFrame

\* Number() reads c.li.Len() and takes no lock
NumberCall(t) ==
    /\ pc[t] = "idle"
    /\ seen' = [op |-> "Number", n |-> Len(li)]
    /\ UNCHANGED <<li, m, elems, curSize, cb, lock, pc, run, quiet>>
    /\ ConcFrame

InitConc ==
    /\ li = <<>>
    /\ m = <<>>
    /\ elems = <<>>
    /\ curSize = 0
    /\ maxSize \in MaxSizes
    /\ sizeMode \in SizeCals
    /\ cb = <<>>
    /\ predLog = <<>>
    /\ scanLog = <<>>
    /\ op = "New"
    /\ arg = NoArg
    /\ ret = NoRet
    /\ rePut = FALSE
    /\ puts = <<>>
    /\ lock = [w |-> 0, r |-> {}]
    /\ pc = [t \in Threads |-> "idle"]
    /\ run = [t \in Threads |-> NoRun]
    /\ seen = NoSeen
    /\ quiet = [size |-> 0, n |-> 0]
    /\ cbKind \in CallbackKinds

\* the steps of a goroutine that is inside a call
Continue(t) ==
    \/ Body(t)
    \/ Loop(t)
    \/ CallbackReturn(t)

NextConc ==
    \/ \E t \in Threads, call \in Calls : Acquire(t, call)
    \/ \E t \in Threads : Body(t)
    \/ \E t \in Threads : Loop(t)
    \/ \E t \in Threads : CallbackReturn(t)
    \/ \E t \in Threads : SizeCall(t)
    \/ \E t \in Threads : NumberCall(t)

SpecConc == InitConc /\ [][NextConc]_vars

\* Put and the operations that, with it, lead to every state of the cache;
\* the callback is one that returns
PutCalls == {call \in Calls : call.op \in {"Put", "Get", "Remove"}}

NextPut ==
    \/ \E t \in Threads, call \in PutCalls : Acquire(t, call)
    \/ \E t \in Threads : Body(t)
    \/ \E t \in Threads : Loop(t)
    \/ \E t \in Threads : CallbackReturn(t)

\* a goroutine that can take a step inside its call eventually takes one
FairSpecPut == Init /\ [][NextPut]_vars /\ \A t \in Threads : WF_vars(Continue(t))

\* ---- observations used by the properties ----------------------------------
\* the entries of the recency list, front to back
EntrySeq == [i \in 1 .. Len(li) |-> elems[li[i]]]

\* the keys of the recency list, front to back
KeySeq == [i \in 1 .. Len(li) |-> elems[li[i]].key]

SeqRange(s) == {s[i] : i \in 1 .. Len(s)}

RECURSIVE SumCost(_)
SumCost(es) ==
    IF es = <<>> THEN 0
    ELSE sizeCal(Head(es).key, Head(es).value) + SumCost(Tail(es))

Reverse(s) == [i \in 1 .. Len(s) |-> s[Len(s) + 1 - i]]

IsPrefix(s, t) == Len(s) <= Len(t) /\ \A i \in 1 .. Len(s) : s[i] = t[i]

\* ---- C1 ---------------------------------------------------------------------
\* C1: capacity invariant.  With max_size >= 0 and a non-negative cost
\* function, whenever an operation (Put, Get, Remove, RemoveIf, RemoveAll) has
\* returned, Size() <= max_size.
InvCapacity ==
    (maxSize >= 0 /\ sizeMode \in NonNegSizeCals) => curSize <= maxSize

\* a Put of an entry with a cost above 1 has evicted more than one entry and
\* left the cache exactly full
WitCapacity ==
    /\ op = "Put" /\ sizeMode = "weight" /\ maxSize = MaxMaxSize
    /\ Len(cb) >= 2 /\ curSize = maxSize

\* ---- C2 ---------------------------------------------------------------------
\* C2: size accounting invariant.  After every operation the running size
\* equals the sum of cost(key, value) over exactly the resident entries; it is
\* 0 whenever the cache is empty.
InvSizeAccounting ==
    /\ curSize = SumCost(EntrySeq)
    /\ (li = <<>> => curSize = 0)

\* a Remove has taken one entry out and left entries of different costs
WitSizeAccounting ==
    /\ op = "Remove" /\ Len(cb) = 1 /\ sizeMode = "signed"
    /\ Len(li) >= 2 /\ curSize > 0
    /\ \E i, j \in 1 .. Len(li) :
           sizeCal(EntrySeq[i].key, EntrySeq[i].value)
               # sizeCal(EntrySeq[j].key, EntrySeq[j].value)

\* ---- C3 ---------------------------------------------------------------------
\* C3: index/recency consistency invariant.  After every operation the keys
\* of the index m are the keys held in the recency list, every live key has
\* exactly one list position, the index entry of a key refers to the list
\* element carrying that key, and Number() is the number of indexed keys.
InvIndexConsistent ==
    /\ DOMAIN m = SeqRange(KeySeq)
    /\ \A i, j \in 1 .. Len(li) : i # j => li[i] # li[j] /\ KeySeq[i] # KeySeq[j]
    /\ \A k \in DOMAIN m : InList(li, m[k]) /\ elems[m[k]].key = k
    /\ Len(li) = Cardinality(DOMAIN m)

\* entries were removed and several entries remain, not in the order of
\* their keys
WitIndexConsistent ==
    /\ op = "RemoveIf" /\ cb # <<>> /\ Len(li) >= 2 /\ KeySeq[1] > KeySeq[2]

\* ---- C4 ---------------------------------------------------------------------
\* the entries in recency order once Put(key, value) has inserted or updated
\* its entry and before its eviction pass
AfterInsert(key, value) ==
    <<Entry(key, value)>> \o SelectSeq(EntrySeq, LAMBDA e : e.key # key)

\* the sum of the costs of the callback invocations i..Len(calls)
RECURSIVE SumFrom(_, _)
SumFrom(calls, i) ==
    IF i > Len(calls) THEN 0
    ELSE sizeCal(calls[i].key, calls[i].value) + SumFrom(calls, i + 1)

\* C4: LRU victim selection.  The entries a Put evicts are taken from the back
\* of the recency order, one at a time and back-most first, so what stays is
\* a prefix of the order; each eviction happens only while size > max_size and
\* the pass goes on while size > max_size and an entry remains.  Consequently
\* n distinct new keys put with unit cost into the empty cache of capacity
\* c < n leave exactly the last c keys resident.
LRUVictimStep ==
    op' = "Put" =>
        LET before == AfterInsert(arg'.key, arg'.value)
            after == EntrySeq'
            n == Len(before) - Len(after)
        IN  /\ IsPrefix(after, before)
            /\ Len(cb') = n
            /\ \A i \in 1 .. n : cb'[i] = before[Len(before) + 1 - i]
            /\ \A i \in 1 .. n : curSize' + SumFrom(cb', i) > maxSize
            /\ (Len(after) > 0 => curSize' <= maxSize)

LastPutsResident ==
    (sizeMode = "nil" /\ puts # Tainted /\ maxSize >= 0 /\ Len(puts) > maxSize)
        => KeySeq = [i \in 1 .. maxSize |-> puts[Len(puts) + 1 - i]]

LRUVictimSelection == [][LRUVictimStep]_vars /\ []LastPutsResident

\* more new keys than the capacity were put and the last ones put are resident
WitLRUVictim ==
    /\ sizeMode = "nil" /\ puts # Tainted /\ maxSize = MaxMaxSize
    /\ Len(puts) > maxSize /\ Len(li) = maxSize /\ cb # <<>>
\* ---- C5 ---------------------------------------------------------------------
\* C5: Get promotes recency.  A Get(k) that finds k moves k to the front,
\* keeps the relative order (and the values) of all other entries and changes
\* neither size nor count; it invokes no callback.  Consequently, with unit
\* cost and max_size >= 2, the key of a successful Get is still resident after
\* a Put of a new key that follows the Get.
GetPromotesStep ==
    (op' = "Get" /\ arg'.key \in DOMAIN m) =>
        LET k == arg'.key IN
        /\ ret'.ok /\ ret'.value = elems[m[k]].value
        /\ EntrySeq' = AfterInsert(k, elems[m[k]].value)
        /\ curSize' = curSize
        /\ Len(li') = Len(li)
        /\ cb' = <<>>

GetKeepsResidentStep ==
    (/\ op = "Get" /\ ret.ok
     /\ sizeMode = "nil" /\ maxSize >= 2
     /\ op' = "Put" /\ arg'.key \notin DOMAIN m)
        => arg.key \in DOMAIN m'

GetPromotesRecency == [][GetPromotesStep /\ GetKeepsResidentStep]_vars

\* a successful Get has put its key in front of another entry of a full cache
WitGetPromotes ==
    /\ op = "Get" /\ ret.ok /\ sizeMode = "nil" /\ maxSize >= 2
    /\ Len(li) = maxSize /\ KeySeq[1] = arg.key /\ KeySeq[1] > KeySeq[2]
\* ---- C6 ---------------------------------------------------------------------
\* the effect of a Put on an already-resident key, up to its eviction pass:
\* the number of entries does not grow and the size changes by the new cost
\* minus the old cost (the costs of the entries evicted afterwards apart)
UpdateAdjusts ==
    LET k == arg'.key
        v == arg'.value
    IN  /\ Len(li') <= Len(li)
        /\ curSize' + SumFrom(cb', 1)
               = (curSize - sizeCal(k, elems[m[k]].value)) + sizeCal(k, v)

UpdateLeavesAtFront ==
    /\ Len(li') >= 1
    /\ EntrySeq'[1] = Entry(arg'.key, arg'.value)
    /\ arg'.key \in DOMAIN m'

\* C6 as stated: in any reachable state, after Put(k, v1); Put(k, v2) a
\* Get(k) returns (v2, true); a Put on an already-resident key does not
\* increase Number(), replaces the value, adjusts the size by new cost - old
\* cost and moves k to the front (read for the non-negative cost functions
\* that the cache is specified for).
UpdateStepAsStated ==
    /\ (op = "Put" /\ rePut /\ op' = "Get" /\ arg'.key = arg.key)
            => (ret'.ok /\ ret'.value = arg.value)
    /\ (op' = "Put" /\ arg'.key \in DOMAIN m)
            => (UpdateAdjusts /\ UpdateLeavesAtFront)

UpdateSemanticsAsStated ==
    [][(sizeMode \in NonNegSizeCals) => UpdateStepAsStated]_vars

\* C6 (amended): the same, provided the cost of the new entry (k, v2) is at
\* most max_size; a Put on an already-resident key never increases Number()
\* and adjusts the size by new cost - old cost before its eviction pass, and
\* leaves k at the front with the new value when cost(k, v) <= max_size.
UpdateSemantics ==
    [][/\ (/\ op = "Put" /\ rePut /\ op' = "Get" /\ arg'.key = arg.key
           /\ sizeCal(arg.key, arg.value) <= maxSize)
            => (ret'.ok /\ ret'.value = arg.value)
       /\ (op' = "Put" /\ arg'.key \in DOMAIN m)
            => /\ UpdateAdjusts
               /\ (sizeCal(arg'.key, arg'.value) <= maxSize
                      => UpdateLeavesAtFront)]_vars

\* the second of two Puts of one key has updated the entry in front of another
WitUpdateSemantics ==
    /\ op = "Put" /\ rePut /\ sizeMode = "nil" /\ Len(li) >= 2
    /\ EntrySeq[1] = Entry(arg.key, arg.value)

\* ---- C7 ---------------------------------------------------------------------
\* the entries an operation works on: the resident ones, with the entry of a
\* Put inserted or replaced by the Put
LiveDuring ==
    IF op' = "Put" THEN AfterInsert(arg'.key, arg'.value) ELSE EntrySeq

\* C7: eviction callback exactly once per permanent removal.  The callback
\* invocations of an operation are exactly the entries (key and current
\* value) that stop being resident in it, each once; none is for an entry
\* still resident afterwards nor for the value an updating Put replaced.
CallbackOncePerRemoval ==
    [][LET gone == {e \in SeqRange(LiveDuring) : e.key \notin DOMAIN m'}
       IN  /\ SeqRange(cb') = gone
           /\ Len(cb') = Cardinality(gone)]_vars

\* a RemoveIf has removed two entries and kept one
WitCallbackOnce ==
    op = "RemoveIf" /\ Len(cb) = 2 /\ Len(li) = 1

\* ---- C8 ---------------------------------------------------------------------
\* no callback of the last operation is for its own key, which is resident
OwnKeyKept ==
    /\ \A i \in 1 .. Len(cb) : cb[i].key # arg.key
    /\ arg.key \in DOMAIN m

\* C8 as stated: every on_evict invocation made during Put(k, v) is for a key
\* other than k and the entry put is not removed by the eviction pass (read
\* for the non-negative cost functions that the cache is specified for).
PutEvictsOnlyOthersAsStated ==
    (op = "Put" /\ sizeMode \in NonNegSizeCals) => OwnKeyKept

\* C8 (amended): that holds of every Put(k, v) with cost(k, v) <= max_size;
\* any Put evicts its own entry at most as the last victim of its pass.
PutEvictsOnlyOthers ==
    op = "Put" =>
        /\ (sizeCal(arg.key, arg.value) <= maxSize => OwnKeyKept)
        /\ \A i \in 1 .. Len(cb) - 1 : cb[i].key # arg.key

\* a Put has evicted another entry and kept its own, which fills the cache
WitPutEvictsOthers ==
    /\ op = "Put" /\ cb # <<>> /\ arg.key \in DOMAIN m
    /\ sizeMode = "weight" /\ sizeCal(arg.key, arg.value) = maxSize

\* ---- C9 ---------------------------------------------------------------------
\* C9: RemoveIf correctness.  RemoveIf(p) calls p once on each resident key,
\* front to back, removes exactly the entries whose key satisfies p with one
\* callback each, keeps the others in their relative order and lowers the
\* size by the sum of the costs of the removed entries.
RemoveIfCorrect ==
    [][op' = "RemoveIf" =>
         /\ predLog' = KeySeq
         /\ EntrySeq' = SelectSeq(EntrySeq, LAMBDA e : e.key \notin arg'.pred)
         /\ cb' = SelectSeq(EntrySeq, LAMBDA e : e.key \in arg'.pred)
         /\ curSize' = curSize - SumFrom(cb', 1)]_vars

\* a RemoveIf has removed the entry between two entries it kept
WitRemoveIf ==
    /\ op = "RemoveIf" /\ Len(predLog) = 3 /\ Len(cb) = 1 /\ Len(li) = 2
    /\ predLog[2] = cb[1].key

\* ---- C10 --------------------------------------------------------------------
\* C10: operations on an absent key are no-ops.  Remove(k) and Get(k) of a
\* key that is not resident change neither list, index, size nor count and
\* invoke no callback, and Get reports not found; a Remove(k) right after a
\* Remove(k) changes nothing and invokes no callback.
AbsentKeyNoOp ==
    [][/\ (op' \in {"Get", "Remove"} /\ arg'.key \notin DOMAIN m)
            => /\ UNCHANGED <<li, m, elems, curSize>>
               /\ cb' = <<>>
               /\ (op' = "Get" => ~ret'.ok)
       /\ (op = "Remove" /\ op' = "Remove" /\ arg'.key = arg.key)
            => /\ UNCHANGED <<li, m, elems, curSize>>
               /\ cb' = <<>>]_vars

\* a Remove of an absent key has returned on a cache that is not empty
WitAbsentKeyNoOp ==
    op = "Remove" /\ cb = <<>> /\ arg.key \notin DOMAIN m /\ Len(li) >= 2

\* ---- C11 --------------------------------------------------------------------
\* C11: RemoveAll resets fully.  After RemoveAll, Size() = 0, Number() = 0,
\* every key is absent from the index, and the callbacks of the call are the
\* entries that were resident when it began, once each, and no other.
RemoveAllResets ==
    [][op' = "RemoveAll" =>
         /\ curSize' = 0
         /\ Len(li') = 0
         /\ DOMAIN m' = {}
         /\ SeqRange(cb') = SeqRange(EntrySeq)
         /\ Len(cb') = Len(li)]_vars

\* a RemoveAll has emptied a cache of several entries of a positive size
WitRemoveAll ==
    /\ op = "RemoveAll" /\ Len(cb) >= 2 /\ SumCost(cb) > 0
    /\ li = <<>> /\ curSize = 0

\* ---- C15 --------------------------------------------------------------------
\* the last operation has left the cache empty after a callback for its entry
OwnEntryEvicted ==
    /\ Len(li) = 0
    /\ arg.key \notin DOMAIN m
    /\ \E i \in 1 .. Len(cb) : cb[i] = Entry(arg.key, arg.value)

\* C15 as stated: with max_size <= 0 and a non-negative cost function every
\* Put evicts every entry: Number() = 0 afterwards, the put key is not
\* retained and on_evict was invoked for it.
NonPositiveMaxAsStated ==
    (op = "Put" /\ maxSize <= 0 /\ sizeMode \in NonNegSizeCals)
        => OwnEntryEvicted

\* C15 (amended): that holds of every Put(k, v) with cost(k, v) > max_size,
\* which is every Put when max_size < 0 or all costs are positive; with
\* max_size = 0 a Put of an entry of cost 0 evicts nothing and retains it.
NonPositiveMax ==
    (op = "Put" /\ maxSize <= 0 /\ sizeMode \in NonNegSizeCals) =>
        /\ (sizeCal(arg.key, arg.value) > maxSize => OwnEntryEvicted)
        /\ (maxSize < 0 \/ sizeMode = "nil") => OwnEntryEvicted
        /\ (sizeCal(arg.key, arg.value) <= maxSize =>
               /\ cb = <<>>
               /\ Len(li) >= 1
               /\ EntrySeq[1] = Entry(arg.key, arg.value))

\* with max_size = 0 a Put of a positive cost has evicted the resident entries
\* of cost 0 and then its own entry
WitNonPositiveMax ==
    /\ op = "Put" /\ maxSize = 0 /\ sizeMode = "weight"
    /\ Len(cb) >= 2 /\ li = <<>> /\ curSize = 0
    /\ cb[Len(cb)] = Entry(arg.key, arg.value)

\* ---- C20 --------------------------------------------------------------------
\* C20: retention of the put key.  With a non-negative cost function, after
\* Put(k, v) the key k is resident if and only if cost(k, v) <= max_size, and
\* then at the front with the value v; when cost(k, v) > max_size the cache is
\* empty with size 0 and the callbacks of the Put are the entries of all the
\* other keys that were resident and the entry (k, v), once each.
PutRetention ==
    [][(op' = "Put" /\ sizeMode \in NonNegSizeCals) =>
         LET k == arg'.key
             v == arg'.value
         IN  /\ (k \in DOMAIN m') <=> (sizeCal(k, v) <= maxSize)
             /\ (k \in DOMAIN m' => EntrySeq'[1] = Entry(k, v))
             /\ (sizeCal(k, v) > maxSize =>
                    /\ li' = <<>>
                    /\ DOMAIN m' = {}
                    /\ curSize' = 0
                    /\ SeqRange(cb') = SeqRange(AfterInsert(k, v))
                    /\ Len(cb') = Len(AfterInsert(k, v)))]_vars

\* with a positive maximum a Put of a larger cost has emptied the cache
WitPutRetention ==
    /\ op = "Put" /\ sizeMode = "weight" /\ maxSize >= 1
    /\ sizeCal(arg.key, arg.value) > maxSize
    /\ Len(cb) >= 2 /\ li = <<>>

\* ---- C12 --------------------------------------------------------------------
Min(a, b) == IF a <= b THEN a ELSE b

\* C12: Scan order and early stop.  Scan calls its consumer on the resident
\* entries front to back, each at most once: with a consumer that first
\* returns false on its N-th call exactly the first N entries are visited,
\* with one that returns true on every call all entries are, once each; Scan
\* changes neither recency order, index, size nor count.
ScanOrderAndStop ==
    [][op' = "Scan" =>
         /\ Len(scanLog') = Min(arg'.stop, Len(li))
         /\ IsPrefix(scanLog', EntrySeq)
         /\ UNCHANGED <<li, m, elems, curSize>>
         /\ cb' = <<>>]_vars

\* a Scan was stopped by its consumer at the second of three entries
WitScan ==
    /\ op = "Scan" /\ arg.stop = 2 /\ Len(scanLog) = 2 /\ Len(li) = 3
    /\ scanLog[1].key > scanLog[2].key

\* ---- C13 --------------------------------------------------------------------
LRUResult == leastRecentlyUsed(Cache)

\* C13: LeastRecentlyUsed returns the back-most entry with found = true, or
\* found = false on the empty cache, and changes nothing; the entry returned
\* is the first victim of an eviction by a following Put of another key; a Get
\* hit on the back-most key of at least two entries makes another key the
\* one LeastRecentlyUsed returns.
LeastRecentlyUsedStep ==
    op' = "LeastRecentlyUsed" =>
        /\ ret'.ok = (Len(li) > 0)
        /\ (Len(li) > 0 =>
               Entry(ret'.key, ret'.value) = EntrySeq[Len(li)])
        /\ UNCHANGED <<li, m, elems, curSize>>
        /\ cb' = <<>>

NextVictimStep ==
    (/\ op = "LeastRecentlyUsed" /\ ret.ok
     /\ op' = "Put" /\ arg'.key # ret.key /\ cb' # <<>>)
        => cb'[1] = Entry(ret.key, ret.value)

GetChangesLRUStep ==
    (op' = "Get" /\ Len(li) >= 2 /\ LRUResult.key = arg'.key)
        => (LRUResult'.ok /\ LRUResult'.key # arg'.key)

LeastRecentlyUsedBack ==
    [][LeastRecentlyUsedStep /\ NextVictimStep /\ GetChangesLRUStep]_vars

\* LeastRecentlyUsed has returned the last of several entries
WitLeastRecentlyUsed ==
    /\ op = "LeastRecentlyUsed" /\ ret.ok /\ Len(li) >= 2
    /\ ret.key = KeySeq[Len(li)] /\ ret.key # KeySeq[1]

\* ---- C14 --------------------------------------------------------------------
\* C14: AllKeys returns exactly the resident keys, each once, front to back,
\* and changes nothing; after Puts of new keys that all fit with unit cost it
\* returns them last put first.  The AllKeys of the variant that ranges over
\* the index returns the indexed keys, each once.
AllKeysStep ==
    op' = "AllKeys" =>
        /\ ret'.keys = KeySeq
        /\ SeqRange(ret'.keys) = DOMAIN m
        /\ Len(ret'.keys) = Cardinality(DOMAIN m)
        /\ (puts # Tainted /\ sizeMode = "nil" /\ Len(puts) <= maxSize)
              => ret'.keys = Reverse(puts)
        /\ UNCHANGED <<li, m, elems, curSize>>

AllKeysByIndexStep ==
    op' = "AllKeysByIndex" =>
        /\ SeqRange(ret'.keys) = DOMAIN m
        /\ Len(ret'.keys) = Cardinality(DOMAIN m)
        /\ UNCHANGED <<li, m, elems, curSize>>

AllKeysRecencyOrder == [][AllKeysStep /\ AllKeysByIndexStep]_vars

\* AllKeys has returned three keys that are in no order of the keys
WitAllKeys ==
    /\ op = "AllKeys" /\ Len(ret.keys) = 3
    /\ ret.keys[1] < ret.keys[2] /\ ret.keys[2] > ret.keys[3]

\* ---- C16 --------------------------------------------------------------------
\* C16: a Size() or Number() call never returns a transient value.  With
\* max_size >= 0 and a non-negative cost function, Size() never returns more
\* than max_size, also while another goroutine is inside Put between its
\* insert and its eviction pass, and what Size() / Number() returns is the
\* size / count the cache had when the last mutating operation completed.
ReadsSeeCompletedStates ==
    (maxSize >= 0 /\ sizeMode \in NonNegSizeCals) =>
        /\ seen.op = "Size" => (seen.n <= maxSize /\ seen.n = quiet.size)
        /\ seen.op = "Number" => seen.n = quiet.n

\* ---- C17 --------------------------------------------------------------------
Inside(t) == pc[t] # "idle"

\* C17: under any interleaving of goroutines calling the locked operations,
\* at most one goroutine is inside a mutating operation (Put, Get, Remove,
\* RemoveIf, RemoveAll), no read operation (AllKeys, Scan, LeastRecentlyUsed)
\* is inside the cache together with a mutating one, and whenever the lock is
\* free the size-accounting, index/list-consistency and capacity invariants
\* hold.
MutualExclusion ==
    /\ Cardinality({t \in Threads : Inside(t) /\ run[t].op \in Writers}) <= 1
    /\ \A t, u \in Threads :
           ~ (/\ Inside(t) /\ run[t].op \in Writers
              /\ Inside(u) /\ run[u].op \in Readers)
    /\ (lock.w = 0 /\ lock.r = {})
          => InvSizeAccounting /\ InvIndexConsistent /\ InvCapacity

\* a goroutine is inside Put after its insert with the cache over its
\* capacity, and holds the lock alone
WitMutualExclusion ==
    \E t \in Threads :
        /\ pc[t] = "loop" /\ run[t].op = "Put" /\ lock.w = t
        /\ maxSize >= 0 /\ sizeMode \in NonNegSizeCals /\ curSize > maxSize
        /\ Len(li) >= 2
        /\ \A u \in Threads \ {t} : ~ Inside(u)

\* ---- C18 --------------------------------------------------------------------
\* C18: expireCallback runs only while the invoking goroutine holds the lock
\* for writing; a callback that calls a locking operation of the same cache
\* stays in that call for ever, the outer operation never returning and the
\* lock never being released; and while a callback runs no other goroutine
\* enters or completes a locking operation.
CallbackUnderLock ==
    /\ [](\A t \in Threads : pc[t] = "callback" => lock.w = t)
    /\ [][\A t \in Threads :
             (pc[t] = "callback" /\ cbKind = "reentrant")
                => (pc'[t] = "callback" /\ lock' = lock)]_vars
    /\ [][\A t, u \in Threads :
             (pc[t] = "callback" /\ u # t) => pc'[u] = pc[u]]_vars

\* a re-entrant callback is running under RemoveIf after an earlier one of
\* the same call
WitCallbackUnderLock ==
    \E t \in Threads :
        /\ pc[t] = "callback" /\ cbKind = "reentrant" /\ lock.w = t
        /\ run[t].op \in {"Put", "RemoveIf", "RemoveAll", "Remove"}
        /\ Len(cb) = 1 /\ Len(li) >= 1

\* ---- C19 --------------------------------------------------------------------
\* C19: for every max_size and every cost function, each iteration of the
\* eviction pass of Put removes exactly one entry and invokes the callback
\* for it, the iterations made and the entries left add up to the Number() at
\* the start of the pass, and every Put whose callback returns without
\* re-entering the cache eventually returns: no goroutine stays inside such a
\* Put for ever.
EvictionTerminates ==
    /\ [][\A t \in Threads :
             (/\ pc[t] = "loop" /\ run[t].op = "Put"
              /\ <<pc, li, m, elems, curSize, cb>>
                     # <<pc, li, m, elems, curSize, cb>>')
                => \/ /\ pc'[t] = "idle"
                      /\ UNCHANGED <<li, m, elems, curSize>>
                      /\ (curSize <= maxSize \/ li = <<>>)
                   \/ /\ pc'[t] = "callback"
                      /\ curSize > maxSize
                      /\ Len(li') = Len(li) - 1
                      /\ Cardinality(DOMAIN m') = Cardinality(DOMAIN m) - 1
                      /\ Len(cb') = Len(cb) + 1]_vars
    /\ [](\A t \in Threads :
             (pc[t] \in {"loop", "callback"} /\ run[t].op = "Put")
                => /\ Len(cb) + Len(li) \in {quiet.n, quiet.n + 1}
                   /\ Len(cb) <= quiet.n + 1)
    /\ \A t \in Threads :
           []<>(~ (Inside(t) /\ run[t].op = "Put" /\ cbKind = "plain"))

\* a Put is in its eviction pass after two iterations, with a negative
\* maximum
WitEvictionTerminates ==
    \E t \in Threads :
        /\ pc[t] = "loop" /\ run[t].op = "Put" /\ cbKind = "plain"
        /\ Len(cb) = 2 /\ maxSize < 0

====
